---- MODULE Spec2Model ----
(***************************************************************************)
(* Model of the repository-ingestion pipeline of ai-sdlc-repo-ingest-api:  *)
(* executeRepomix (src/api/repo-ingest/helpers/execute-repomix.js), its    *)
(* helper createRepomixConfig, the validator isValidGitHubUrl and the two  *)
(* route handlers that call it (repo-ingest and repo-files).               *)
(*                                                                         *)
(* One request is one asynchronous invocation of a handler.  Every await   *)
(* of the code is one action; the child process, its streams and the timer *)
(* are the environment and deliver their events as further actions.        *)
(* JavaScript values are written as their text: "true", "false",           *)
(* "undefined", and an exit code as "0", "1", "null" (ended by a signal).  *)
(***************************************************************************)
EXTENDS Integers, Sequences, FiniteSets, TLC

\* ------------------------------------------------------------------ bounds
\* Number of requests that may be in flight together.
NumReq == 2
\* Number of stderr chunks one child process may emit.
MaxChunks == 2

Reqs == 1..NumReq

\* ------------------------------------------------------ JavaScript values
Undef == "undefined"
True == "true"
False == "false"
JsValues == {Undef, True, False}

\* ------------------------------------------------------------------- URLs
\* A reference string is given by its pieces; scheme "" is a string with no
\* scheme, which new URL() cannot parse.  segs is the path split at "/".
SpecialSchemes == {"http", "https", "ftp", "ws", "wss", "file"}

UrlAcme == [scheme |-> "https", host |-> "github.com", segs |-> <<"", "acme", "widgets">>]
UrlWww == [scheme |-> "https", host |-> "www.github.com", segs |-> <<"", "", "acme", "", "widgets", "">>]
UrlUpper == [scheme |-> "https", host |-> "GitHub.com", segs |-> <<"", "acme", "widgets">>]
UrlOtherHost == [scheme |-> "https", host |-> "example.com", segs |-> <<"", "acme", "widgets">>]
UrlShort == [scheme |-> "https", host |-> "github.com", segs |-> <<"", "acme">>]
UrlNoPath == [scheme |-> "https", host |-> "github.com", segs |-> <<"">>]
UrlGitScheme == [scheme |-> "git", host |-> "GitHub.com", segs |-> <<"", "acme", "widgets">>]
UrlGitLower == [scheme |-> "git", host |-> "github.com", segs |-> <<"", "acme", "widgets">>]
UrlMalformed == [scheme |-> "", host |-> "github.com", segs |-> <<"", "acme", "widgets">>]
\* A reference with a space and shell metacharacters in its path.
UrlMeta == [scheme |-> "https", host |-> "github.com", segs |-> <<"", "acme", "widgets --verbose;id&$(reboot)">>]

AllUrls == {UrlAcme, UrlWww, UrlUpper, UrlOtherHost, UrlShort, UrlNoPath,
            UrlGitScheme, UrlGitLower, UrlMalformed, UrlMeta}

RECURSIVE JoinSlash(_)
JoinSlash(segs) ==
    IF Len(segs) = 0 THEN ""
    ELSE IF Len(segs) = 1 THEN segs[1]
    ELSE segs[1] \o "/" \o JoinSlash(Tail(segs))

\* The reference as the string the caller sent.
Href(u) ==
    IF u.scheme = "" THEN u.host \o JoinSlash(u.segs)
    ELSE u.scheme \o "://" \o u.host \o JoinSlash(u.segs)

\* String.prototype.toLowerCase on the host names of AllUrls.
ToLowerCase(h) ==
    CASE h = "GitHub.com" -> "github.com"
      [] OTHER -> h

\* new URL(url): throws on a string with no scheme; the host of a special
\* scheme is lower-cased by the parser, an opaque host is kept as written.
UrlParses(u) == u.scheme # ""
Hostname(u) == IF u.scheme \in SpecialSchemes THEN ToLowerCase(u.host) ELSE u.host

\* pathname.split('/').filter(Boolean)
RECURSIVE FilterBoolean(_)
FilterBoolean(segs) ==
    IF Len(segs) = 0 THEN <<>>
    ELSE IF Head(segs) = "" THEN FilterBoolean(Tail(segs))
    ELSE <<Head(segs)>> \o FilterBoolean(Tail(segs))

AllowedHosts == {"github.com", "www.github.com"}

\* Mutant of isValidGitHubUrl: the host is not checked.
isValidGitHubUrlAnyHost(u) ==
    IF ~UrlParses(u) THEN FALSE
    ELSE Len(FilterBoolean(u.segs)) >= 2

isValidGitHubUrl(u) ==
    IF ~UrlParses(u) THEN FALSE
    ELSE IF Hostname(u) \notin AllowedHosts THEN FALSE
    ELSE Len(FilterBoolean(u.segs)) >= 2

\* ------------------------------------------------------------ filesystem
OutputDir == "/tmp/repomix-output"
ConfigDir == "/tmp/repomix-config"

\* path.join(dir, name)
PathJoin(dir, name) == dir \o "/" \o name

\* Mutant of OutputFileFor: one output file name for every request.
OutputFileForShared(uniqueId) == PathJoin(OutputDir, "repomix-output.txt")

OutputFileFor(uniqueId) == PathJoin(OutputDir, "repomix-output-" \o uniqueId \o ".txt")
ConfigFileFor(uniqueId) == PathJoin(ConfigDir, "repomix-config-" \o uniqueId \o ".json")

\* Mutant of randomUUID: the same identifier every time.
randomUUIDFixed(r, k) == "1"

\* crypto.randomUUID(): a value it has not returned before.  The values are
\* interchangeable, so the one returned to request r by its k-th call (the
\* output file's, then the config file's) is named after r and k.
randomUUID(r, k) == ToString(2 * (r - 1) + k)

\* A file's content is a sequence of tokens; the empty file is <<>>.
EmptyText == <<>>
OutputTexts == {<<"chunk-a">>, <<"chunk-a", "chunk-b">>}

\* ------------------------------------------------------- config document
createConfigObject(outputFile) ==
    [output |-> [filePath |-> outputFile,
                 style |-> "plain",
                 parsableStyle |-> False,
                 compress |-> False,
                 fileSummary |-> True,
                 directoryStructure |-> True,
                 removeComments |-> False,
                 removeEmptyLines |-> False,
                 showLineNumbers |-> True,
                 copyToClipboard |-> False,
                 includeEmptyDirectories |-> False],
     include |-> <<"**/*">>,
     ignore |-> [useGitignore |-> True,
                 useDefaultPatterns |-> True,
                 customPatterns |-> <<>>],
     security |-> [enableSecurityCheck |-> False]]

OutputKeys == <<"filePath", "style", "parsableStyle", "compress", "fileSummary",
                "directoryStructure", "removeComments", "removeEmptyLines",
                "showLineNumbers", "copyToClipboard", "includeEmptyDirectories">>

\* JSON.stringify(config, null, 2): the members in order, one key token and
\* one value token each; an array is written as its length and its items.
RECURSIVE StringifyMembers(_, _, _)
StringifyMembers(prefix, obj, keys) ==
    IF Len(keys) = 0 THEN <<>>
    ELSE <<prefix \o Head(keys), obj[Head(keys)]>> \o StringifyMembers(prefix, obj, Tail(keys))

RECURSIVE StringifyArray(_, _, _)
StringifyArray(prefix, arr, i) ==
    IF i > Len(arr) THEN <<>>
    ELSE <<prefix \o "[" \o ToString(i - 1) \o "]", arr[i]>> \o StringifyArray(prefix, arr, i + 1)

JSONstringify(config) ==
    StringifyMembers("output.", config.output, OutputKeys)
    \o <<"include.length", ToString(Len(config.include))>>
    \o StringifyArray("include", config.include, 1)
    \o StringifyMembers("ignore.", config.ignore, <<"useGitignore", "useDefaultPatterns">>)
    \o <<"ignore.customPatterns.length", ToString(Len(config.ignore.customPatterns))>>
    \o StringifyArray("ignore.customPatterns", config.ignore.customPatterns, 1)
    \o StringifyMembers("security.", config.security, <<"enableSecurityCheck">>)

\* JSON.parse(text): the value token that follows a key token.
HasMember(text, key) == \E i \in 1..Len(text) : i % 2 = 1 /\ text[i] = key
Member(text, key) == text[(CHOOSE i \in 1..Len(text) : i % 2 = 1 /\ text[i] = key) + 1]

ArrayLength(text, prefix) ==
    CHOOSE n \in 0..Len(text) : ToString(n) = Member(text, prefix \o ".length")

ParseArray(text, prefix) ==
    [i \in 1..ArrayLength(text, prefix) |-> Member(text, prefix \o "[" \o ToString(i - 1) \o "]")]

JSONparse(text) ==
    [output |-> [k \in {OutputKeys[i] : i \in 1..Len(OutputKeys)} |-> Member(text, "output." \o k)],
     include |-> ParseArray(text, "include"),
     ignore |-> [useGitignore |-> Member(text, "ignore.useGitignore"),
                 useDefaultPatterns |-> Member(text, "ignore.useDefaultPatterns"),
                 customPatterns |-> ParseArray(text, "ignore.customPatterns")],
     security |-> [enableSecurityCheck |-> Member(text, "security.enableSecurityCheck")]]

\* -------------------------------------------------------------- callers
\* executeRepomix is reached from the repo-ingest handler, from the
\* repo-files handler, or directly (it is an exported function).
OptionKeys == {"compress", "removeComments", "removeEmptyLines"}
FilePathsInputs == {"src/a.js,src/b.js", "README.md"}

\* Joi.boolean().default(false) of the repo-ingest payload.
JoiDefault(v) == IF v = Undef THEN False ELSE v

\* repoIngestController.handler: the options object it builds.
IngestOptions(payload) ==
    [compress |-> JoiDefault(payload.compress),
     removeComments |-> JoiDefault(payload.remove_comments),
     removeEmptyLines |-> JoiDefault(payload.remove_empty_lines)]

\* repoFilesController.handler: the options object it builds.
FilesOptions(payload) ==
    [compress |-> False,
     removeComments |-> False,
     removeEmptyLines |-> False,
     include |-> payload.filePaths]

IngestPayloads(urls) ==
    [repository_url : urls, compress : JsValues, remove_comments : JsValues,
     remove_empty_lines : JsValues]
FilesPayloads(urls) == [repositoryUrl : urls, filePaths : FilePathsInputs]

\* Options objects of a direct call: any subset of the three keys, each
\* with a boolean or with undefined.
DirectOptions ==
    UNION {[keys -> JsValues] : keys \in SUBSET OptionKeys}

IngestCall(payload) ==
    [caller |-> "ingest", repositoryUrl |-> payload.repository_url,
     options |-> IngestOptions(payload), filePaths |-> ""]
FilesCall(payload) ==
    [caller |-> "files", repositoryUrl |-> payload.repositoryUrl,
     options |-> FilesOptions(payload), filePaths |-> payload.filePaths]
DirectCall(url, options) ==
    [caller |-> "direct", repositoryUrl |-> url, options |-> options, filePaths |-> ""]

\* Every call of the model: each kind of caller with every payload or
\* options object on one valid reference, and a direct call without options
\* on each of the other references.
AllCalls ==
    {IngestCall(p) : p \in IngestPayloads({UrlAcme})}
    \cup {FilesCall(p) : p \in FilesPayloads({UrlAcme})}
    \cup {DirectCall(UrlAcme, o) : o \in DirectOptions}
    \cup {DirectCall(u, <<>>) : u \in AllUrls}
    \cup {IngestCall(p) : p \in {q \in IngestPayloads({UrlOtherHost}) :
                                   q.compress = Undef /\ q.remove_comments = Undef
                                   /\ q.remove_empty_lines = Undef}}
    \cup {FilesCall(p) : p \in FilesPayloads({UrlShort})}

\* The calls used when requests run together: the requests alternate
\* between the two handlers, and any of them may carry a rejected reference.
FewCalls(r) ==
    {IF r % 2 = 1
     THEN IngestCall([repository_url |-> UrlAcme, compress |-> True,
                      remove_comments |-> Undef, remove_empty_lines |-> Undef])
     ELSE FilesCall([repositoryUrl |-> UrlAcme, filePaths |-> "README.md"]),
     DirectCall(UrlOtherHost, <<>>)}

NoCall == DirectCall(UrlMalformed, <<>>)

\* ----------------------------------------------------------------- errors
\* An error is its message and whether it is a Boom error, with the status
\* code Boom gives it (0 for a plain Error).
PlainError(message) == [isBoom |-> FALSE, statusCode |-> 0, message |-> message]
BoomBadRequest(message) == [isBoom |-> TRUE, statusCode |-> 400, message |-> message]
BoomBadImplementation(message) == [isBoom |-> TRUE, statusCode |-> 500, message |-> message]
NoError == PlainError("")

FsErrors == {"EACCES"}

InvalidUrlError == BoomBadRequest("Invalid GitHub repository URL")
PrepareError(e) == PlainError("Cannot prepare output path: " \o e)
ExitError(code, err) == PlainError("Repomix exited with code " \o code \o ": " \o err)
SpawnError(e) == PlainError("Failed to execute repomix: " \o e)
TimeoutError == PlainError("Repomix process timed out after 5 minutes")
EmptyOutputMessage == "Repomix generated an empty output file"
OutputFileError(e) == PlainError("Output file issue: " \o e)

\* What executeRepomix gives its caller: a result or a thrown error.
Returned(outputPath, content) ==
    [ok |-> TRUE, outputPath |-> outputPath, content |-> content, error |-> NoError]
Thrown(error) ==
    [ok |-> FALSE, outputPath |-> "", content |-> EmptyText, error |-> error]

\* Mutant of IngestResponse: the reply to a plain error carries its message.
IngestResponseLeaky(out) ==
    IF out.ok
    THEN [statusCode |-> 200, type |-> "application/json",
          message |-> "Repository successfully processed",
          outputPath |-> out.outputPath, content |-> out.content]
    ELSE IF out.error.isBoom
    THEN [statusCode |-> out.error.statusCode, type |-> "application/json",
          message |-> out.error.message, outputPath |-> "", content |-> EmptyText]
    ELSE [statusCode |-> 500, type |-> "application/json",
          message |-> out.error.message,
          outputPath |-> "", content |-> EmptyText]

\* The handlers' replies (lines after the await, and the catch block).
IngestResponse(out) ==
    IF out.ok
    THEN [statusCode |-> 200, type |-> "application/json",
          message |-> "Repository successfully processed",
          outputPath |-> out.outputPath, content |-> out.content]
    ELSE IF out.error.isBoom
    THEN [statusCode |-> out.error.statusCode, type |-> "application/json",
          message |-> out.error.message, outputPath |-> "", content |-> EmptyText]
    ELSE [statusCode |-> 500, type |-> "application/json",
          message |-> "An error occurred while processing the repository",
          outputPath |-> "", content |-> EmptyText]

FilesResponse(out) ==
    IF out.ok
    THEN [statusCode |-> 200, type |-> "application/xml",
          message |-> "", outputPath |-> "", content |-> out.content]
    ELSE IF out.error.isBoom
    THEN [statusCode |-> out.error.statusCode, type |-> "application/json",
          message |-> out.error.message, outputPath |-> "", content |-> EmptyText]
    ELSE [statusCode |-> 500, type |-> "application/json",
          message |-> "An error occurred while processing the repository files",
          outputPath |-> "", content |-> EmptyText]

HandlerResponse(caller, out) ==
    IF caller = "ingest" THEN <<IngestResponse(out)>>
    ELSE IF caller = "files" THEN <<FilesResponse(out)>>
    ELSE <<>>

\* ------------------------------------------------------------------ state
VARIABLES
    pc,          \* where each request's executeRepomix stands
    call,        \* the caller, repositoryUrl and options of each request
    outputFile,  \* the local outputFile ("" before it is set)
    configFile,  \* the local configFile ("" before it is set)
    config,      \* the local config of the overlay block, <<>> outside it
    promise,     \* the promise around the child process
    outcome,     \* what executeRepomix returned or threw, <<>> before
    response,    \* the handler's reply, <<>> before (and for a direct call)
    child,       \* the spawned npm process and the tool it runs
    timeout,     \* the setTimeout handle
    stderr,      \* the local stderr buffer
    files,       \* the filesystem: path -> content, for the files that exist
    dirs         \* the directories that exist

vars == <<pc, call, outputFile, configFile, config, promise, outcome, response,
          child, timeout, stderr, files, dirs>>

jsVars == <<pc, call, outputFile, configFile, config, promise, outcome, response>>
fsVars == <<files, dirs>>

NoChild ==
    [proc |-> "none", tool |-> "none", code |-> "", args |-> <<>>, seen |-> <<>>,
     kills |-> 0, signalled |-> FALSE, closed |-> FALSE, chunks |-> 0, spawns |-> 0]

Init ==
    /\ pc = [r \in Reqs |-> "idle"]
    /\ call = [r \in Reqs |-> NoCall]
    /\ outputFile = [r \in Reqs |-> ""]
    /\ configFile = [r \in Reqs |-> ""]
    /\ config = [r \in Reqs |-> <<>>]
    /\ promise = [r \in Reqs |-> "none"]
    /\ outcome = [r \in Reqs |-> <<>>]
    /\ response = [r \in Reqs |-> <<>>]
    /\ child = [r \in Reqs |-> NoChild]
    /\ timeout = [r \in Reqs |-> "none"]
    /\ stderr = [r \in Reqs |-> ""]
    /\ files = <<>>
    /\ dirs = {}

\* fs.writeFile(path, text): creates the file or replaces its content.
WriteFile(fs, path, text) ==
    [p \in DOMAIN fs \cup {path} |-> IF p = path THEN text ELSE fs[p]]

\* options.<key> of a JavaScript object: undefined for a key it lacks.
Get(options, key) == IF key \in DOMAIN options THEN options[key] ELSE Undef

\* executeRepomix ends (returns or throws) and the handler that awaited it
\* builds its reply in the same turn.
Finish(r, out) ==
    /\ pc' = [pc EXCEPT ![r] = "done"]
    /\ outcome' = [outcome EXCEPT ![r] = <<out>>]
    /\ response' = [response EXCEPT ![r] = HandlerResponse(call[r].caller, out)]

\* --------------------------------------------------------- executeRepomix
\* The handler builds the options and calls executeRepomix, which validates
\* the reference and, when valid, names the output file and starts mkdir.
\* Requests are numbered in the order they arrive.
Call(r, c) ==
    /\ pc[r] = "idle"
    /\ IF r = 1 THEN TRUE ELSE pc[r - 1] # "idle"
    /\ call' = [call EXCEPT ![r] = c]
    /\ IF ~isValidGitHubUrl(c.repositoryUrl)
       THEN /\ pc' = [pc EXCEPT ![r] = "done"]
            /\ outcome' = [outcome EXCEPT ![r] = <<Thrown(InvalidUrlError)>>]
            /\ response' = [response EXCEPT ![r] = HandlerResponse(c.caller, Thrown(InvalidUrlError))]
            /\ UNCHANGED outputFile
       ELSE /\ pc' = [pc EXCEPT ![r] = "mkdirOutput"]
            /\ outputFile' = [outputFile EXCEPT ![r] = OutputFileFor(randomUUID(r, 1))]
            /\ UNCHANGED <<outcome, response>>
    /\ UNCHANGED <<configFile, config, promise, child, timeout, stderr, files, dirs>>

\* await fs.mkdir(tempDir, { recursive: true })
MkdirOutput(r) ==
    /\ pc[r] = "mkdirOutput"
    /\ \/ /\ dirs' = dirs \cup {OutputDir}
          /\ pc' = [pc EXCEPT ![r] = "writeOutput"]
          /\ UNCHANGED <<outcome, response>>
       \/ /\ \E e \in FsErrors : Finish(r, Thrown(PrepareError(e)))
          /\ UNCHANGED dirs
    /\ UNCHANGED <<call, outputFile, configFile, config, promise, child, timeout,
                   stderr, files>>

\* await fs.writeFile(outputFile, '')
WriteOutput(r) ==
    /\ pc[r] = "writeOutput"
    /\ \/ /\ OutputDir \in dirs
          /\ files' = WriteFile(files, outputFile[r], EmptyText)
          /\ pc' = [pc EXCEPT ![r] = "accessOutput"]
          /\ UNCHANGED <<outcome, response>>
       \/ /\ \E e \in FsErrors : Finish(r, Thrown(PrepareError(e)))
          /\ UNCHANGED files
    /\ UNCHANGED <<call, outputFile, configFile, config, promise, child, timeout,
                   stderr, dirs>>

\* Mutant of AccessOutput: the failure is thrown as a bad-request error.
AccessOutputBadRequest(r) ==
    /\ pc[r] = "accessOutput"
    /\ \/ /\ outputFile[r] \in DOMAIN files
          /\ pc' = [pc EXCEPT ![r] = "mkdirConfig"]
          /\ configFile' = [configFile EXCEPT ![r] = ConfigFileFor(randomUUID(r, 2))]
          /\ UNCHANGED <<outcome, response>>
       \/ /\ \E e \in FsErrors : Finish(r, Thrown(BoomBadRequest("Cannot prepare output path: " \o e)))
          /\ UNCHANGED configFile
    /\ UNCHANGED <<call, outputFile, config, promise, child, timeout, stderr,
                   files, dirs>>

\* await fs.access(outputFile, fs.constants.W_OK); then createRepomixConfig
\* builds its config object, names the config file and starts its mkdir.
AccessOutput(r) ==
    /\ pc[r] = "accessOutput"
    /\ \/ /\ outputFile[r] \in DOMAIN files
          /\ pc' = [pc EXCEPT ![r] = "mkdirConfig"]
          /\ configFile' = [configFile EXCEPT ![r] = ConfigFileFor(randomUUID(r, 2))]
          /\ UNCHANGED <<outcome, response>>
       \/ /\ \E e \in FsErrors : Finish(r, Thrown(PrepareError(e)))
          /\ UNCHANGED configFile
    /\ UNCHANGED <<call, outputFile, config, promise, child, timeout, stderr,
                   files, dirs>>

\* createRepomixConfig: await fs.mkdir(configDir, { recursive: true })
MkdirConfig(r) ==
    /\ pc[r] = "mkdirConfig"
    /\ \/ /\ dirs' = dirs \cup {ConfigDir}
          /\ pc' = [pc EXCEPT ![r] = "writeConfig"]
          /\ UNCHANGED <<outcome, response>>
       \/ /\ \E e \in FsErrors : Finish(r, Thrown(PlainError(e)))
          /\ UNCHANGED dirs
    /\ UNCHANGED <<call, outputFile, configFile, config, promise, child, timeout,
                   stderr, files>>

\* The config file createRepomixConfig writes.
InitialConfigText(r) == JSONstringify(createConfigObject(outputFile[r]))

\* Object.keys(options).length > 0
HasOptions(options) == Cardinality(DOMAIN options) > 0

\* Mutant of WriteConfig: the pipeline moves on without the config file
\* having been written.
WriteConfigNotAwaited(r) ==
    /\ pc[r] = "writeConfig"
    /\ pc' = [pc EXCEPT ![r] = IF HasOptions(call[r].options)
                               THEN "readConfig" ELSE "spawn"]
    /\ UNCHANGED <<call, outputFile, configFile, config, promise, outcome, response,
                   child, timeout, stderr, files, dirs>>

\* createRepomixConfig: await fs.writeFile(configFile, JSON.stringify(config));
\* back in executeRepomix the overlay block is entered or skipped.
WriteConfig(r) ==
    /\ pc[r] = "writeConfig"
    /\ \/ /\ ConfigDir \in dirs
          /\ files' = WriteFile(files, configFile[r], InitialConfigText(r))
          /\ pc' = [pc EXCEPT ![r] = IF HasOptions(call[r].options)
                                     THEN "readConfig" ELSE "spawn"]
          /\ UNCHANGED <<outcome, response>>
       \/ /\ \E e \in FsErrors : Finish(r, Thrown(PlainError(e)))
          /\ UNCHANGED files
    /\ UNCHANGED <<call, outputFile, configFile, config, promise, child, timeout,
                   stderr, dirs>>

\* Mutant of Overlay: the assignments are not guarded.
OverlayUnguarded(cfg, options) ==
    [cfg EXCEPT
       !.output.compress = Get(options, "compress"),
       !.output.removeComments = Get(options, "removeComments"),
       !.output.removeEmptyLines = Get(options, "removeEmptyLines")]

\* The three guarded assignments of the overlay block.
Overlay(cfg, options) ==
    [cfg EXCEPT
       !.output.compress =
           IF Get(options, "compress") # Undef THEN Get(options, "compress") ELSE @,
       !.output.removeComments =
           IF Get(options, "removeComments") # Undef THEN Get(options, "removeComments") ELSE @,
       !.output.removeEmptyLines =
           IF Get(options, "removeEmptyLines") # Undef THEN Get(options, "removeEmptyLines") ELSE @]

\* Mutant of ReadConfig: the parsed document is written back as it was read.
ReadConfigNoOverlay(r) ==
    /\ pc[r] = "readConfig"
    /\ \/ /\ configFile[r] \in DOMAIN files
          /\ config' = [config EXCEPT ![r] = <<JSONparse(files[configFile[r]])>>]
          /\ pc' = [pc EXCEPT ![r] = "rewriteConfig"]
          /\ UNCHANGED <<outcome, response>>
       \/ /\ \E e \in FsErrors : Finish(r, Thrown(PlainError(e)))
          /\ UNCHANGED config
    /\ UNCHANGED <<call, outputFile, configFile, promise, child, timeout, stderr,
                   files, dirs>>

\* const config = JSON.parse(await fs.readFile(configFile, 'utf-8')), then
\* the overlay, then the rewrite is started.
ReadConfig(r) ==
    /\ pc[r] = "readConfig"
    /\ \/ /\ configFile[r] \in DOMAIN files
          /\ config' = [config EXCEPT ![r] =
                            <<Overlay(JSONparse(files[configFile[r]]), call[r].options)>>]
          /\ pc' = [pc EXCEPT ![r] = "rewriteConfig"]
          /\ UNCHANGED <<outcome, response>>
       \/ /\ \E e \in FsErrors : Finish(r, Thrown(PlainError(e)))
          /\ UNCHANGED config
    /\ UNCHANGED <<call, outputFile, configFile, promise, child, timeout, stderr,
                   files, dirs>>

\* Mutant of RewriteConfig: a failed rewrite is let pass.
RewriteConfigBestEffort(r) ==
    /\ pc[r] = "rewriteConfig"
    /\ \/ files' = WriteFile(files, configFile[r], JSONstringify(config[r][1]))
       \/ UNCHANGED files
    /\ pc' = [pc EXCEPT ![r] = "spawn"]
    /\ config' = [config EXCEPT ![r] = <<>>]
    /\ UNCHANGED <<call, outputFile, configFile, promise, outcome, response, child,
                   timeout, stderr, dirs>>

\* await fs.writeFile(configFile, JSON.stringify(config, null, 2))
RewriteConfig(r) ==
    /\ pc[r] = "rewriteConfig"
    /\ \/ /\ files' = WriteFile(files, configFile[r], JSONstringify(config[r][1]))
          /\ pc' = [pc EXCEPT ![r] = "spawn"]
          /\ UNCHANGED <<outcome, response>>
       \/ /\ \E e \in FsErrors : Finish(r, Thrown(PlainError(e)))
          /\ UNCHANGED files
    /\ config' = [config EXCEPT ![r] = <<>>]
    /\ UNCHANGED <<call, outputFile, configFile, promise, child, timeout, stderr,
                   dirs>>

\* Mutant of repomixArgs: the arguments joined into one command line.
repomixArgsJoined(r) ==
    <<"--remote " \o Href(call[r].repositoryUrl) \o " --config " \o configFile[r] \o " --verbose">>

\* The argument vector given to spawn('npm', ...).
repomixArgs(r) == <<"--remote", Href(call[r].repositoryUrl), "--config", configFile[r], "--verbose">>
SpawnArgs(r) == <<"run", "repomix", "--">> \o repomixArgs(r)

\* The promise executor: spawn, the listeners, setTimeout.
Spawn(r) ==
    /\ pc[r] = "spawn"
    /\ pc' = [pc EXCEPT ![r] = "await"]
    /\ promise' = [promise EXCEPT ![r] = "pending"]
    /\ child' = [child EXCEPT ![r].proc = "running", ![r].args = SpawnArgs(r),
                              ![r].spawns = @ + 1]
    /\ timeout' = [timeout EXCEPT ![r] = "armed"]
    /\ stderr' = [stderr EXCEPT ![r] = ""]
    /\ UNCHANGED <<call, outputFile, configFile, config, outcome, response, files, dirs>>

\* ------------------------------------------------- the promise's listeners
\* Mutant of Resolve: an already settled promise is not left alone.
ResolveSettled(r) ==
    /\ promise' = [promise EXCEPT ![r] = "fulfilled"]
    /\ pc' = [pc EXCEPT ![r] = "stat"]
    /\ UNCHANGED <<outcome, response>>

\* resolve() of the promise, and the function resuming after the await in
\* the same turn: it starts fs.stat.  A settled promise ignores the call.
Resolve(r) ==
    IF promise[r] = "pending"
    THEN /\ promise' = [promise EXCEPT ![r] = "fulfilled"]
         /\ pc' = [pc EXCEPT ![r] = "stat"]
         /\ UNCHANGED <<outcome, response>>
    ELSE UNCHANGED <<promise, pc, outcome, response>>

\* Mutant of Reject: an already settled promise is not left alone.
RejectSettled(r, error) ==
    /\ promise' = [promise EXCEPT ![r] = "rejected"]
    /\ Finish(r, Thrown(error))

\* reject(error) of the promise, and the function throwing the error at the
\* await in the same turn.  A settled promise ignores the call.
Reject(r, error) ==
    IF promise[r] = "pending"
    THEN /\ promise' = [promise EXCEPT ![r] = "rejected"]
         /\ Finish(r, Thrown(error))
    ELSE UNCHANGED <<promise, pc, outcome, response>>

\* Mutant of OnClose: the exit code is not looked at.
OnCloseIgnoreCode(r, code) == Resolve(r)

\* repomixProcess.on('close', (code) => ...)
OnClose(r, code) ==
    IF code # "0" THEN Reject(r, ExitError(code, stderr[r])) ELSE Resolve(r)

\* Mutant of ClearTimeout: the timer is left armed.
ClearTimeoutNoop(t) == t

\* clearTimeout(timeout)
ClearTimeout(t) == IF t = "armed" THEN "cleared" ELSE t

\* Mutant of CloseEvent: the listener that clears the timer is missing.
CloseEventNoClear(r) ==
    /\ child[r].proc \in {"exited", "failed"}
    /\ child[r].tool # "running"
    /\ ~child[r].closed
    /\ child' = [child EXCEPT ![r].closed = TRUE]
    /\ OnClose(r, child[r].code)
    /\ UNCHANGED <<call, outputFile, configFile, config, timeout, stderr, files, dirs>>

\* The child emits 'close' once it has ended and its stdio pipes are closed
\* (the tool holds them while it runs); both 'close' listeners run.
CloseEvent(r) ==
    /\ child[r].proc \in {"exited", "failed"}
    /\ child[r].tool # "running"
    /\ ~child[r].closed
    /\ child' = [child EXCEPT ![r].closed = TRUE]
    /\ OnClose(r, child[r].code)
    /\ timeout' = [timeout EXCEPT ![r] = ClearTimeout(@)]
    /\ UNCHANGED <<call, outputFile, configFile, config, stderr, files, dirs>>

\* repomixProcess.on('error', ...): npm could not be spawned.  Node reports
\* this on the next tick, before any other event of the child.
ErrorEvent(r) ==
    /\ child[r].proc = "running"
    /\ child[r].tool = "none"
    /\ child[r].chunks = 0
    /\ timeout[r] = "armed"
    /\ child' = [child EXCEPT ![r].proc = "failed", ![r].code = "-2"]
    /\ Reject(r, SpawnError("spawn npm ENOENT"))
    /\ UNCHANGED <<call, outputFile, configFile, config, timeout, stderr, files, dirs>>

\* repomixProcess.kill(): SIGTERM to the npm process, if it still runs.
Kill(c) ==
    [c EXCEPT !.kills = @ + 1,
              !.signalled = IF c.proc = "running" THEN TRUE ELSE @]

\* Mutant of TimerFire: the callback kills the child and forgets to reject.
TimerFireKillOnly(r) ==
    /\ timeout[r] = "armed"
    /\ timeout' = [timeout EXCEPT ![r] = "fired"]
    /\ child' = [child EXCEPT ![r] = Kill(@)]
    /\ UNCHANGED <<jsVars, stderr, files, dirs>>

\* The setTimeout callback.
TimerFire(r) ==
    /\ timeout[r] = "armed"
    /\ timeout' = [timeout EXCEPT ![r] = "fired"]
    /\ child' = [child EXCEPT ![r] = Kill(@)]
    /\ Reject(r, TimeoutError)
    /\ UNCHANGED <<call, outputFile, configFile, config, stderr, files, dirs>>

StderrChunks == {"warn;", "fail;"}

\* repomixProcess.stderr.on('data', ...)
StderrData(r, chunk) ==
    /\ child[r].proc \in {"running", "exited"}
    /\ ~child[r].closed
    /\ child[r].chunks < MaxChunks
    /\ child' = [child EXCEPT ![r].chunks = @ + 1]
    /\ stderr' = [stderr EXCEPT ![r] = @ \o chunk]
    /\ UNCHANGED <<jsVars, timeout, fsVars>>

StdoutChunks == {"out;"}

\* repomixProcess.stdout.on('data', ...): the data is dropped.
StdoutData(r, chunk) ==
    /\ child[r].proc \in {"running", "exited"}
    /\ ~child[r].closed
    /\ UNCHANGED vars

\* ------------------------------------------------------ the child process
\* The value after "--config" in the argument vector.
ConfigArg(args) == args[(CHOOSE i \in 1..Len(args) : args[i] = "--config") + 1]

IsConfigText(text) ==
    /\ \A i \in 1..Len(OutputKeys) : HasMember(text, "output." \o OutputKeys[i])
    /\ HasMember(text, "include.length")
    /\ HasMember(text, "ignore.customPatterns.length")

\* npm starts the repomix script; the tool reads the config file named in
\* its arguments.
ToolStart(r) ==
    /\ child[r].proc = "running"
    /\ child[r].tool = "none"
    /\ child' = [child EXCEPT
                   ![r].tool = "running",
                   ![r].seen =
                       IF /\ ConfigArg(child[r].args) \in DOMAIN files
                          /\ IsConfigText(files[ConfigArg(child[r].args)])
                       THEN <<JSONparse(files[ConfigArg(child[r].args)])>>
                       ELSE <<>>]
    /\ UNCHANGED <<jsVars, timeout, stderr, fsVars>>

\* What a running tool may leave in its output file at any moment: nothing
\* yet (the file opened and truncated) or some text.
ToolTexts == OutputTexts \cup {EmptyText}

\* The tool writes its output at the path its config names.
ToolWrite(r, text) ==
    /\ child[r].tool = "running"
    /\ child[r].seen # <<>>
    /\ files' = WriteFile(files, child[r].seen[1].output.filePath, text)
    /\ files' # files
    /\ UNCHANGED <<jsVars, child, timeout, stderr, dirs>>

\* npm ends with an exit code (that of the tool, when it ran one).
ProcExit(r, code) ==
    /\ child[r].proc = "running"
    /\ child' = [child EXCEPT ![r].proc = "exited", ![r].code = code,
                              ![r].tool = IF @ = "running" THEN "exited" ELSE @]
    /\ UNCHANGED <<jsVars, timeout, stderr, fsVars>>

\* npm ends by the SIGTERM sent to it; the signal goes to npm alone, so a
\* tool it had started keeps running.
ProcTerminated(r) ==
    /\ child[r].proc = "running"
    /\ child[r].signalled
    /\ child' = [child EXCEPT ![r].proc = "exited", ![r].code = "null"]
    /\ UNCHANGED <<jsVars, timeout, stderr, fsVars>>

\* A tool left behind by its npm process ends.
OrphanExit(r) ==
    /\ child[r].proc = "exited"
    /\ child[r].tool = "running"
    /\ child' = [child EXCEPT ![r].tool = "exited"]
    /\ UNCHANGED <<jsVars, timeout, stderr, fsVars>>

ExitCodes == {"0", "1"}

\* --------------------------------------------------- the result, read back
\* Mutant of Stat: the size is not checked.
StatNoSizeCheck(r) ==
    /\ pc[r] = "stat"
    /\ \/ /\ outputFile[r] \in DOMAIN files
          /\ pc' = [pc EXCEPT ![r] = "readOutput"]
          /\ UNCHANGED <<outcome, response>>
       \/ \E e \in FsErrors : Finish(r, Thrown(OutputFileError(e)))
    /\ UNCHANGED <<call, outputFile, configFile, config, promise, child, timeout,
                   stderr, fsVars>>

\* const stats = await fs.stat(outputFile) with its size check, inside the
\* try whose catch rewraps the error.
Stat(r) ==
    /\ pc[r] = "stat"
    /\ \/ /\ outputFile[r] \in DOMAIN files
          /\ IF Len(files[outputFile[r]]) = 0
             THEN Finish(r, Thrown(OutputFileError(EmptyOutputMessage)))
             ELSE /\ pc' = [pc EXCEPT ![r] = "readOutput"]
                  /\ UNCHANGED <<outcome, response>>
       \/ \E e \in FsErrors : Finish(r, Thrown(OutputFileError(e)))
    /\ UNCHANGED <<call, outputFile, configFile, config, promise, child, timeout,
                   stderr, fsVars>>

\* Mutant of ReadOutput: the content returned is not the file's.
ReadOutputStale(r) ==
    /\ pc[r] = "readOutput"
    /\ \/ /\ outputFile[r] \in DOMAIN files
          /\ Finish(r, Returned(outputFile[r], <<"chunk-a">>))
       \/ \E e \in FsErrors : Finish(r, Thrown(PlainError(e)))
    /\ UNCHANGED <<call, outputFile, configFile, config, promise, child, timeout,
                   stderr, fsVars>>

\* Mutant of ReadOutput: the output file is removed once it has been read.
ReadOutputCleanup(r) ==
    /\ pc[r] = "readOutput"
    /\ \/ /\ outputFile[r] \in DOMAIN files
          /\ Finish(r, Returned(outputFile[r], files[outputFile[r]]))
          /\ files' = [p \in DOMAIN files \ {outputFile[r]} |-> files[p]]
       \/ /\ \E e \in FsErrors : Finish(r, Thrown(PlainError(e)))
          /\ UNCHANGED files
    /\ UNCHANGED <<call, outputFile, configFile, config, promise, child, timeout,
                   stderr, dirs>>

\* const content = await fs.readFile(outputFile, 'utf-8'), and the return.
ReadOutput(r) ==
    /\ pc[r] = "readOutput"
    /\ \/ /\ outputFile[r] \in DOMAIN files
          /\ Finish(r, Returned(outputFile[r], files[outputFile[r]]))
       \/ \E e \in FsErrors : Finish(r, Thrown(PlainError(e)))
    /\ UNCHANGED <<call, outputFile, configFile, config, promise, child, timeout,
                   stderr, fsVars>>

\* ---------------------------------------------------------- specifications
Pipeline(r) ==
    \/ MkdirOutput(r)
    \/ WriteOutput(r)
    \/ AccessOutput(r)
    \/ MkdirConfig(r)
    \/ WriteConfig(r)
    \/ ReadConfig(r)
    \/ RewriteConfig(r)
    \/ Spawn(r)
    \/ Stat(r)
    \/ ReadOutput(r)

Events(r) ==
    \/ CloseEvent(r)
    \/ ErrorEvent(r)
    \/ TimerFire(r)

Process(r) ==
    \/ ToolStart(r)
    \/ \E text \in ToolTexts : ToolWrite(r, text)
    \/ \E code \in ExitCodes : ProcExit(r, code)
    \/ ProcTerminated(r)
    \/ OrphanExit(r)

Streams(r) ==
    \/ \E chunk \in StderrChunks : StderrData(r, chunk)
    \/ \E chunk \in StdoutChunks : StdoutData(r, chunk)

\* Requests running together, each with one of a few calls.
Next ==
    \E r \in Reqs :
        \/ \E c \in FewCalls(r) : Call(r, c)
        \/ Pipeline(r)
        \/ Events(r)
        \/ Process(r)

Spec == Init /\ [][Next]_vars

\* One request, with every call and the child's output streams.
NextOne ==
    \/ \E c \in AllCalls : Call(1, c)
    \/ Pipeline(1)
    \/ Events(1)
    \/ Process(1)
    \/ Streams(1)

SpecOne == Init /\ [][NextOne]_vars

\* The timer is the runtime's: an armed timer fires unless it is cleared.
FairOne == SpecOne /\ WF_vars(TimerFire(1))

\* As FairOne, and an npm process that was sent SIGTERM ends on it.
FairKill == SpecOne /\ WF_vars(TimerFire(1)) /\ WF_vars(ProcTerminated(1))

\* ------------------------------------------------------------ properties
Spawned(r) == child[r].spawns > 0
Ended(r) == pc[r] = "done" /\ outcome[r] # <<>>
ThrewError(r, error) == Ended(r) /\ outcome[r] = <<Thrown(error)>>
TimedOut(r) == ThrewError(r, TimeoutError)
Succeeded(r) == Ended(r) /\ outcome[r][1].ok

\* C1: an invocation that reached the spawn step never waits forever.  With
\* the timer fair, an awaiting executeRepomix always leaves the await, and
\* unless the child closes or could not be spawned it does so by throwing
\* the timeout error.
C1_TimeoutNeverHangs ==
    \A r \in Reqs :
        /\ (pc[r] = "await") ~> (pc[r] # "await")
        /\ (pc[r] = "await") ~>
              (child[r].closed \/ child[r].proc = "failed" \/ TimedOut(r))

\* A tool that is still running, and has not closed, when the timeout error
\* is thrown.
C1_Witness ==
    \E r \in Reqs : TimedOut(r) /\ ~child[r].closed /\ child[r].tool = "running"

\* C2: after the timeout failure is reported, the npm process and the tool
\* it runs eventually are no longer running.
C2_ProcessTerminated ==
    \A r \in Reqs :
        TimedOut(r) ~> (child[r].proc # "running" /\ child[r].tool # "running")

\* C3: no two requests have the same output artifact path, and no two have
\* the same config artifact path.
C3_UniquePaths ==
    \A r1, r2 \in Reqs :
        r1 # r2 =>
            /\ (outputFile[r1] # "" /\ outputFile[r2] # "" => outputFile[r1] # outputFile[r2])
            /\ (configFile[r1] # "" /\ configFile[r2] # "" => configFile[r1] # configFile[r2])

\* Two requests in flight together, both past the naming of their artifacts.
C3_Witness ==
    \E r1, r2 \in Reqs :
        /\ r1 # r2
        /\ configFile[r1] # "" /\ configFile[r2] # ""
        /\ pc[r1] # "done" /\ pc[r2] # "done"

\* References that are malformed, not on the allow-list, or too short.
C4_BadUrls == {UrlMalformed, UrlOtherHost, UrlShort, UrlNoPath}

\* C4: a request with a malformed or non-allow-listed reference ends at once
\* with the bad-request error; it names no artifact, no file or directory
\* exists because of it, and it has no child process.
C4_InvalidReference ==
    \A r \in Reqs :
        (pc[r] # "idle" /\ call[r].repositoryUrl \in C4_BadUrls) =>
            /\ ThrewError(r, InvalidUrlError)
            /\ outcome[r][1].error.isBoom /\ outcome[r][1].error.statusCode = 400
            /\ outputFile[r] = "" /\ configFile[r] = ""
            /\ child[r] = NoChild /\ timeout[r] = "none" /\ promise[r] = "none"
            /\ (\A q \in Reqs \ {r} : pc[q] = "idle") => (files = <<>> /\ dirs = {})

C4_Witness ==
    \E r \in Reqs : pc[r] = "done" /\ call[r].repositoryUrl = UrlOtherHost
                    /\ call[r].caller = "ingest"

\* C5: the invocation succeeds exactly when the child closed with exit code
\* 0 while the timer was still armed; a non-zero exit code, a spawn error or
\* a timer that fired first fail it, and the output file is then never
\* inspected.
C5_InvocationOutcome ==
    \A r \in Reqs :
        /\ promise[r] = "fulfilled" <=>
               (child[r].closed /\ child[r].code = "0" /\ timeout[r] = "cleared")
        /\ (child[r].closed /\ child[r].code # "0") => promise[r] = "rejected"
        /\ child[r].proc = "failed" => promise[r] = "rejected"
        /\ timeout[r] = "fired" => promise[r] = "rejected"
        /\ promise[r] = "rejected" =>
               /\ pc[r] = "done"
               /\ \/ outcome[r] = <<Thrown(TimeoutError)>>
                  \/ outcome[r] = <<Thrown(SpawnError("spawn npm ENOENT"))>>
                  \/ \E code \in {"1", "null", "-2"} :
                        outcome[r] = <<Thrown(ExitError(code, stderr[r]))>>
        /\ pc[r] \in {"stat", "readOutput"} => promise[r] = "fulfilled"
        /\ (Ended(r) /\ Spawned(r) /\ promise[r] # "rejected") => promise[r] = "fulfilled"

\* The timer fired first and the child then closed with exit code 0.
C5_Witness ==
    \E r \in Reqs : /\ timeout[r] = "fired" /\ child[r].closed /\ child[r].code = "0"
                    /\ promise[r] = "rejected"

\* The errors the model's filesystem faults produce after the child closed.
IoFault(out) ==
    ~out.ok /\ \E e \in FsErrors : out.error \in {OutputFileError(e), PlainError(e)}

\* C6: after a close with exit code 0 and with a non-empty output file,
\* executeRepomix returns that file's whole text as content and the path it
\* generated for this request as outputPath (a filesystem fault aside).
C6_ResultIsArtifact ==
    \A r \in Reqs :
        (Ended(r) /\ promise[r] = "fulfilled" /\ Len(files[outputFile[r]]) > 0
           /\ ~IoFault(outcome[r][1])) =>
            outcome[r] = <<Returned(outputFile[r], files[outputFile[r]])>>

C6_Witness ==
    \E r \in Reqs : /\ Succeeded(r)
                    /\ outcome[r][1].content = <<"chunk-a", "chunk-b">>
                    /\ call[r].caller = "ingest"

\* C7: after a close with exit code 0 and with the output file still empty,
\* executeRepomix throws the empty-output error (or the fault of the stat
\* itself) and never returns a result.
C7_EmptyOutputFails ==
    \A r \in Reqs :
        (Ended(r) /\ promise[r] = "fulfilled" /\ Len(files[outputFile[r]]) = 0) =>
            /\ ~outcome[r][1].ok
            /\ \/ outcome[r] = <<Thrown(OutputFileError(EmptyOutputMessage))>>
               \/ \E e \in FsErrors : outcome[r] = <<Thrown(OutputFileError(e))>>

C7_Witness ==
    \E r \in Reqs : /\ ThrewError(r, OutputFileError(EmptyOutputMessage))
                    /\ child[r].code = "0" /\ child[r].tool = "exited"

\* C8: in selected-files mode the config the tool reads has the caller's
\* comma-delimited path list, unsplit, as its include filter.
C8_IncludeIsFilePaths ==
    \A r \in Reqs :
        (call[r].caller = "files" /\ child[r].seen # <<>>) =>
            child[r].seen[1].include = <<call[r].filePaths>>

\* C9: the config's output style is plain in full-text mode and xml in
\* selected-files mode; in both the security check is off and the gitignore
\* and default ignore rules are on.
C9_StyleByMode ==
    \A r \in Reqs :
        child[r].seen # <<>> =>
            /\ child[r].seen[1].output.style =
                   (IF call[r].caller = "files" THEN "xml" ELSE "plain")
            /\ child[r].seen[1].security.enableSecurityCheck = False
            /\ child[r].seen[1].ignore.useGitignore = True
            /\ child[r].seen[1].ignore.useDefaultPatterns = True

\* The value the config must carry for an option: the caller's when given,
\* false when the key is missing or undefined.
C10_Expect(options, key) ==
    IF key \in DOMAIN options /\ options[key] \in {True, False} THEN options[key] ELSE False

C10_ExpectedConfig(r) ==
    [output |-> [filePath |-> outputFile[r],
                 style |-> "plain",
                 parsableStyle |-> False,
                 compress |-> C10_Expect(call[r].options, "compress"),
                 fileSummary |-> True,
                 directoryStructure |-> True,
                 removeComments |-> C10_Expect(call[r].options, "removeComments"),
                 removeEmptyLines |-> C10_Expect(call[r].options, "removeEmptyLines"),
                 showLineNumbers |-> True,
                 copyToClipboard |-> False,
                 includeEmptyDirectories |-> False],
     include |-> <<"**/*">>,
     ignore |-> [useGitignore |-> True, useDefaultPatterns |-> True, customPatterns |-> <<>>],
     security |-> [enableSecurityCheck |-> False]]

\* C10: from the spawn on, the config file on disk (and the config the tool
\* reads) has compress, removeComments and removeEmptyLines equal to the
\* caller's values where given and false where omitted, and every other
\* field as createRepomixConfig wrote it.
C10_OverlayRoundTrip ==
    \A r \in Reqs :
        Spawned(r) =>
            /\ configFile[r] \in DOMAIN files
            /\ JSONparse(files[configFile[r]]) = C10_ExpectedConfig(r)
            /\ child[r].seen # <<>> => child[r].seen[1] = C10_ExpectedConfig(r)

\* A direct call with one option given, one undefined and one missing.
C10_Witness ==
    \E r \in Reqs :
        /\ child[r].seen # <<>>
        /\ call[r].caller = "direct"
        /\ DOMAIN call[r].options = {"compress", "removeComments"}
        /\ call[r].options["compress"] = True
        /\ call[r].options["removeComments"] = Undef

\* A request whose reference was accepted and that ended before it named a
\* config file: one of the three steps preparing the output path failed.
C11_PrepareFailed(r) ==
    Ended(r) /\ isValidGitHubUrl(call[r].repositoryUrl) /\ configFile[r] = ""

\* C11: when the output directory cannot be made, or the empty output file
\* cannot be written or is not writable, executeRepomix throws at once a
\* plain "Cannot prepare output path" error (the handler replies 500); the
\* request has no child process, no timer and no config file.
C11_PrepareFailsFast ==
    \A r \in Reqs :
        C11_PrepareFailed(r) =>
            /\ \E e \in FsErrors : outcome[r] = <<Thrown(PrepareError(e))>>
            /\ ~outcome[r][1].error.isBoom
            /\ response[r] # <<>> => response[r][1].statusCode = 500
            /\ child[r] = NoChild /\ promise[r] = "none" /\ timeout[r] = "none"
            /\ ConfigFileFor(randomUUID(r, 2)) \notin DOMAIN files

\* The writability check failed on an output file that had been created, in
\* a request of the repo-ingest handler.
C11_Witness ==
    \E r \in Reqs :
        /\ C11_PrepareFailed(r)
        /\ outputFile[r] \in DOMAIN files
        /\ call[r].caller = "ingest"
        /\ response[r] # <<>>

\* The stages a request has begun, from where it stands.
C12_Synthesizing(r) ==
    pc[r] \in {"mkdirOutput", "writeOutput", "accessOutput", "mkdirConfig",
               "writeConfig", "readConfig", "rewriteConfig", "spawn"}
C12_Materializing(r) == pc[r] \in {"stat", "readOutput"} \/ Succeeded(r)

\* The finished config document of a request.
C12_FinalConfigText(r) ==
    JSONstringify(Overlay(createConfigObject(outputFile[r]), call[r].options))

\* C12: the stages run in the order validate, synthesize, invoke,
\* materialize.  Artifacts are named only for an accepted reference; the
\* child is spawned only when the finished config document is on disk, and
\* it is what the tool reads; the output file is inspected and read only
\* after the child closed with exit code 0, and never while an earlier stage
\* is still running.
C12_StagesInOrder ==
    \A r \in Reqs :
        /\ (C12_Synthesizing(r) \/ Spawned(r)) => isValidGitHubUrl(call[r].repositoryUrl)
        /\ C12_Synthesizing(r) => (~Spawned(r) /\ promise[r] = "none")
        /\ Spawned(r) =>
              /\ configFile[r] \in DOMAIN files
              /\ files[configFile[r]] = C12_FinalConfigText(r)
              /\ child[r].seen # <<>> => child[r].seen[1] = JSONparse(C12_FinalConfigText(r))
        /\ pc[r] = "await" => (Spawned(r) /\ promise[r] = "pending")
        /\ C12_Materializing(r) =>
              /\ Spawned(r)
              /\ child[r].closed /\ child[r].code = "0"
              /\ promise[r] = "fulfilled"

\* A request of the repo-ingest handler with compress set, reading its
\* output after the overlay and the child's exit.
C12_Witness ==
    \E r \in Reqs :
        /\ pc[r] = "readOutput"
        /\ call[r].caller = "ingest"
        /\ call[r].options.compress = True
        /\ child[r].seen # <<>>

\* A request spawns at most one child, and exactly one once it has reached
\* the invocation.
C13_OneSpawn ==
    \A r \in Reqs :
        /\ child[r].spawns <= 1
        /\ (pc[r] \in {"await", "stat", "readOutput"} \/ promise[r] # "none")
              <=> child[r].spawns = 1
        /\ child[r].spawns = 0 => child[r] = NoChild

\* No step spawns for a request whose invocation was started, and no step
\* changes what a request has reported to its caller.
C13_NoRetry ==
    \A r \in Reqs :
        /\ promise[r] # "none" => child'[r].spawns = child[r].spawns
        /\ outcome[r] # <<>> => (outcome'[r] = outcome[r] /\ response'[r] = response[r])

\* C13: a request spawns at most one child process, exactly one when it
\* reaches the invocation; after a failed or timed-out invocation no second
\* process is spawned, and the failure reported to the caller is never
\* replaced by a second report.
C13_SpawnOnceReportOnce == [](C13_OneSpawn) /\ [][C13_NoRetry]_vars

\* The timeout was reported and the child then closed with exit code 1: the
\* 'close' listener has called reject a second time.
C13_Witness ==
    \E r \in Reqs :
        /\ TimedOut(r)
        /\ child[r].closed /\ child[r].code = "1"
        /\ child[r].spawns = 1

\* The fixed message of each handler's internal error.
C14_OpaqueMessage(caller) ==
    IF caller = "ingest" THEN "An error occurred while processing the repository"
    ELSE "An error occurred while processing the repository files"

\* C14: the reply to a failed request is a 400 exactly when the reference is
\* invalid.  Every other failure (scratch I/O, exit code, spawn error,
\* timeout, empty or unreadable output) is thrown as a plain error and
\* replied to as a 500 with the handler's fixed message, which is not the
\* thrown error's message with its stderr text and exit code.
C14_Classification ==
    \A r \in Reqs :
        (response[r] # <<>> /\ Ended(r) /\ ~outcome[r][1].ok) =>
            /\ response[r][1].statusCode \in {400, 500}
            /\ response[r][1].statusCode = 400 <=> ~isValidGitHubUrl(call[r].repositoryUrl)
            /\ response[r][1].statusCode = 400 =>
                   /\ outcome[r][1].error = InvalidUrlError
                   /\ response[r][1].message = "Invalid GitHub repository URL"
            /\ response[r][1].statusCode = 500 =>
                   /\ ~outcome[r][1].error.isBoom
                   /\ response[r][1].message = C14_OpaqueMessage(call[r].caller)
                   /\ response[r][1].message # outcome[r][1].error.message
            /\ response[r][1].content = EmptyText /\ response[r][1].outputPath = ""

\* A request of the repo-ingest handler whose child wrote to stderr and
\* closed with exit code 1.
C14_Witness ==
    \E r \in Reqs :
        /\ call[r].caller = "ingest"
        /\ response[r] # <<>>
        /\ stderr[r] = "warn;fail;"
        /\ outcome[r] = <<Thrown(ExitError("1", stderr[r]))>>

\* What C15 states of the validator: the reference parses, its host folded
\* to lower case is on the allow-list, and its path has two segments.
C15_Expected(u) ==
    /\ UrlParses(u)
    /\ ToLowerCase(u.host) \in AllowedHosts
    /\ Len(FilterBoolean(u.segs)) >= 2

\* C15: the validator accepts a reference exactly when it parses as a URL,
\* its host is github.com or www.github.com compared without regard to
\* case, and its path has at least two non-empty segments; it rejects every
\* other reference (with the bad-request error, never another one).
C15_ValidatorCaseInsensitive ==
    \A r \in Reqs :
        pc[r] # "idle" =>
            /\ isValidGitHubUrl(call[r].repositoryUrl) <=> C15_Expected(call[r].repositoryUrl)
            /\ ThrewError(r, InvalidUrlError) <=> ~C15_Expected(call[r].repositoryUrl)

\* C16: the child is spawned with the arguments run, repomix, -- followed by
\* exactly --remote, the caller's reference string, --config, the config
\* file of this request, --verbose: the reference is one argument whatever
\* it contains, and the config path is the file this request wrote.
C16_ArgumentVector ==
    \A r \in Reqs :
        Spawned(r) =>
            /\ Len(child[r].args) = 8
            /\ SubSeq(child[r].args, 1, 3) = <<"run", "repomix", "--">>
            /\ child[r].args[4] = "--remote"
            /\ child[r].args[5] = Href(call[r].repositoryUrl)
            /\ child[r].args[6] = "--config"
            /\ child[r].args[7] = configFile[r]
            /\ child[r].args[8] = "--verbose"
            /\ configFile[r] = ConfigFileFor(randomUUID(r, 2))
            /\ configFile[r] \in DOMAIN files
            /\ JSONparse(files[configFile[r]]).output.filePath = outputFile[r]

\* A child spawned for the reference with a space and shell metacharacters.
C16_Witness ==
    \E r \in Reqs :
        /\ Spawned(r)
        /\ call[r].repositoryUrl = UrlMeta
        /\ child[r].args[5] = "https://github.com/acme/widgets --verbose;id&$(reboot)"

\* The requests that own a path: it is their output file or config file.
C17_Owners(p) == {r \in Reqs : p = outputFile[r] \/ p = configFile[r]}

\* The paths a step creates or rewrites.
C17_Written == {p \in DOMAIN files' : p \notin DOMAIN files \/ files'[p] # files[p]}

\* A step that writes a file writes a file of exactly one request, and it is
\* a step of that request or of its tool: no other request moves in it.
C17_WritesOwn ==
    \A p \in C17_Written :
        \E r \in Reqs :
            /\ C17_Owners(p) = {r}
            /\ p \in {OutputFileFor(randomUUID(r, 1)), ConfigFileFor(randomUUID(r, 2))}
            /\ \A q \in Reqs \ {r} :
                  pc'[q] = pc[q] /\ child'[q] = child[q] /\ config'[q] = config[q]

\* What a request reads is its own: the config it parses, the config its
\* tool reads and the output it returns are those of its own paths, and a
\* config file holds the document of the request that owns it.
C17_ReadsOwn ==
    \A r \in Reqs :
        /\ config[r] # <<>> => config[r][1].output.filePath = outputFile[r]
        /\ Spawned(r) => /\ ConfigArg(child[r].args) = configFile[r]
                         /\ files[configFile[r]] = C12_FinalConfigText(r)
        /\ child[r].seen # <<>> => child[r].seen[1].output.filePath = outputFile[r]
        /\ Succeeded(r) => /\ outcome[r][1].outputPath = outputFile[r]
                           /\ outcome[r][1].content = files[outputFile[r]]

\* C17: under every interleaving of the requests, a pipeline and its tool
\* create, read and write only the config file and the output file made for
\* their own request.
C17_Isolation == [](C17_ReadsOwn) /\ [][C17_WritesOwn]_vars

\* Two requests awaiting their children together, each tool having written
\* its output.
C17_Witness ==
    \E r1, r2 \in Reqs :
        /\ r1 # r2
        /\ pc[r1] = "await" /\ pc[r2] = "await"
        /\ files[outputFile[r1]] # EmptyText /\ files[outputFile[r2]] # EmptyText

\* C18: a result that executeRepomix returned has non-empty content, and it
\* was returned after the request's child closed with exit code 0 with the
\* timer cleared, not fired.  Between the size check and the read the file
\* is still the non-empty text checked, the tool having ended before the
\* close.
C18_ResultNonEmpty ==
    \A r \in Reqs :
        /\ Succeeded(r) =>
              /\ Len(outcome[r][1].content) > 0
              /\ child[r].closed /\ child[r].code = "0"
              /\ child[r].tool # "running" /\ child[r].proc = "exited"
              /\ timeout[r] = "cleared"
              /\ promise[r] = "fulfilled"
              /\ response[r] # <<>> => (response[r][1].statusCode = 200
                                         /\ Len(response[r][1].content) > 0)
        /\ pc[r] = "readOutput" =>
              /\ Len(files[outputFile[r]]) > 0
              /\ child[r].tool # "running"
              /\ timeout[r] = "cleared"

\* A result returned by the repo-files handler while another request is
\* still awaiting its child.
C18_Witness ==
    \E r, q \in Reqs :
        /\ Succeeded(r)
        /\ call[r].caller = "files"
        /\ response[r] # <<>>
        /\ pc[q] = "await"

\* The request has created its output file (the write of the empty file
\* succeeded), or its config file (the first write of it succeeded).
C19_CreatedOutput(r) ==
    \/ pc[r] \in {"accessOutput", "mkdirConfig", "writeConfig", "readConfig",
                  "rewriteConfig", "spawn", "await", "stat", "readOutput"}
    \/ configFile[r] # ""
C19_CreatedConfig(r) ==
    \/ pc[r] \in {"readConfig", "rewriteConfig", "spawn", "await", "stat", "readOutput"}
    \/ Spawned(r)

\* A file or directory that exists still exists after the step.
C19_NothingDeleted == DOMAIN files \subseteq DOMAIN files' /\ dirs \subseteq dirs'

\* A created artifact exists, also once its request has ended, and it is
\* the artifact of no other request.
C19_ArtifactsKept ==
    \A r \in Reqs :
        /\ C19_CreatedOutput(r) => outputFile[r] \in DOMAIN files
        /\ C19_CreatedConfig(r) => configFile[r] \in DOMAIN files
        /\ \A q \in Reqs \ {r} :
              /\ outputFile[r] # "" => outputFile[r] \notin {outputFile[q], configFile[q]}
              /\ configFile[r] # "" => configFile[r] \notin {outputFile[q], configFile[q]}

\* C19: no step deletes a scratch artifact.  The files and directories only
\* grow, a request's output file and config file exist from their creation
\* on, on every exit path, and no path serves two requests.
C19_NoCleanup == [](C19_ArtifactsKept) /\ [][C19_NothingDeleted]_vars

\* One request ended by the timeout and another by a returned result, the
\* four artifacts all on disk.
C19_Witness ==
    \E r, q \in Reqs :
        /\ TimedOut(r) /\ Succeeded(q)
        /\ {outputFile[r], configFile[r], outputFile[q], configFile[q]} \subseteq DOMAIN files
        /\ Cardinality(DOMAIN files) = 4

\* A request that named its config file and ended without a child: a step
\* of createRepomixConfig or of the overlay failed.
C20_ConfigFailed(r) == Ended(r) /\ configFile[r] # "" /\ ~Spawned(r)

\* C20: when the config directory cannot be made or the config document
\* cannot be written, first or rewritten with the options, executeRepomix
\* throws the plain filesystem error, which the handler replies to as its
\* 500, and no child is spawned: a child exists only with the directory
\* made and the document on disk with the caller's options in it.
C20_ConfigFailure ==
    \A r \in Reqs :
        /\ C20_ConfigFailed(r) =>
              /\ \E e \in FsErrors : outcome[r] = <<Thrown(PlainError(e))>>
              /\ ~outcome[r][1].error.isBoom
              /\ response[r] # <<>> =>
                     /\ response[r][1].statusCode = 500
                     /\ response[r][1].message = C14_OpaqueMessage(call[r].caller)
              /\ child[r] = NoChild /\ promise[r] = "none" /\ timeout[r] = "none"
        /\ Spawned(r) =>
              /\ ConfigDir \in dirs
              /\ configFile[r] \in DOMAIN files
              /\ JSONparse(files[configFile[r]]) =
                     Overlay(createConfigObject(outputFile[r]), call[r].options)

\* The first write of the config succeeded and the overlay of a repo-ingest
\* request with compress set then failed: the file holds the defaults.
C20_Witness ==
    \E r \in Reqs :
        /\ C20_ConfigFailed(r)
        /\ call[r].caller = "ingest"
        /\ call[r].options.compress = True
        /\ configFile[r] \in DOMAIN files
        /\ files[configFile[r]] = InitialConfigText(r)

\* The text t occurs in the text s.
C21_Contains(s, t) ==
    \E i \in 1..(Len(s) - Len(t) + 1) : SubSeq(s, i, i + Len(t) - 1) = t

\* The message of the error a step throws for request r.
C21_ThrownMessage(r) == outcome'[r][1].error.message

\* A step that fails the invocation by the 'close' listener throws the exit
\* code followed by the stderr text received so far, chunk after chunk; a
\* step that fails it by the timer throws the timeout marker and that
\* stderr text.
C21_FailureStep ==
    \A r \in Reqs :
        (promise[r] = "pending" /\ promise'[r] = "rejected") =>
            /\ (~child[r].closed /\ child'[r].closed) =>
                   /\ outcome'[r] = <<Thrown(ExitError(child[r].code, stderr[r]))>>
                   /\ C21_Contains(C21_ThrownMessage(r), child[r].code)
                   /\ C21_Contains(C21_ThrownMessage(r), stderr[r])
            /\ (timeout[r] = "armed" /\ timeout'[r] = "fired") =>
                   /\ C21_Contains(C21_ThrownMessage(r), "timed out")
                   /\ C21_Contains(C21_ThrownMessage(r), stderr[r])

\* No stdout chunk is in what executeRepomix returned or threw.
C21_NoStdout ==
    \A r \in Reqs : \A chunk \in StdoutChunks :
        outcome[r] # <<>> =>
            /\ ~C21_Contains(outcome[r][1].error.message, chunk)
            /\ \A i \in 1..Len(outcome[r][1].content) : outcome[r][1].content[i] # chunk

\* C21: every invocation failure carries the captured stderr text and the
\* exit code or the timeout marker: a non-zero exit carries the code and the
\* stderr chunks received before the close, in arrival order; a timeout
\* carries the timeout marker and the stderr text captured so far; stdout
\* data is in no result and no error.
C21_FailureCarriesDiagnostics == [](C21_NoStdout) /\ [][C21_FailureStep]_vars

\* The promise of request r is settled.
C22_Settled(r) == promise[r] \in {"fulfilled", "rejected"}

\* The event that settles a pending promise decides: a close by its exit
\* code, the timer by the timeout error, 'error' by the spawn error.  Once
\* settled the promise stays as it is; a rejected invocation keeps its
\* reported error, and a fulfilled one goes on to its output file only.
C22_SettleStep ==
    \A r \in Reqs :
        /\ (promise[r] = "pending" /\ promise'[r] # "pending") =>
              /\ (~child[r].closed /\ child'[r].closed) =>
                     IF child[r].code = "0"
                     THEN promise'[r] = "fulfilled" /\ pc'[r] = "stat"
                     ELSE /\ promise'[r] = "rejected"
                          /\ outcome'[r] = <<Thrown(ExitError(child[r].code, stderr[r]))>>
              /\ (timeout[r] = "armed" /\ timeout'[r] = "fired") =>
                     promise'[r] = "rejected" /\ outcome'[r] = <<Thrown(TimeoutError)>>
              /\ (child[r].proc = "running" /\ child'[r].proc = "failed") =>
                     /\ promise'[r] = "rejected"
                     /\ outcome'[r] = <<Thrown(SpawnError("spawn npm ENOENT"))>>
        /\ C22_Settled(r) => promise'[r] = promise[r]
        /\ promise[r] = "rejected" =>
              /\ pc[r] = "done" /\ pc'[r] = "done"
              /\ outcome'[r] = outcome[r] /\ response'[r] = response[r]
        /\ promise[r] = "fulfilled" =>
              /\ timeout'[r] = "cleared"
              /\ pc'[r] \in {"stat", "readOutput", "done"}
              /\ pc[r] = "done" => (outcome'[r] = outcome[r] /\ response'[r] = response[r])

\* A settled invocation stands as the first event left it.
C22_SettledOnce ==
    \A r \in Reqs :
        /\ promise[r] = "rejected" => (Ended(r) /\ ~outcome[r][1].ok)
        /\ promise[r] = "fulfilled" =>
              /\ child[r].closed /\ child[r].code = "0" /\ timeout[r] = "cleared"
              /\ Ended(r) => outcome[r][1].error \notin
                                 {TimeoutError, SpawnError("spawn npm ENOENT")}

\* C22: under every ordering of the child's 'close' and 'error' events and
\* the timer, the invocation settles exactly once and the first of them
\* decides: a close with code 0 after the timeout does not make the failure
\* a success, and the timer never fails an invocation that closed with
\* code 0.
C22_FirstEventDecides == [](C22_SettledOnce) /\ [][C22_SettleStep]_vars

\* The timeout was reported, and the tool then wrote its output and the
\* child closed with exit code 0.
C22_Witness ==
    \E r \in Reqs :
        /\ TimedOut(r)
        /\ child[r].closed /\ child[r].code = "0"
        /\ files[outputFile[r]] # EmptyText

\* C23: once an invocation has settled, by a close, by the spawn 'error' or
\* by the timeout, its timer is no longer armed: it has fired or it has been
\* cleared.
C23_NoTimerAfterSettle ==
    \A r \in Reqs :
        C22_Settled(r) => timeout[r] \in {"fired", "cleared"}

\* kill() has been called at most once for a request, and then by its timer.
C24_KilledByTimer ==
    \A r \in Reqs :
        /\ child[r].kills <= 1
        /\ child[r].kills = 1 <=> timeout[r] = "fired"
        /\ child[r].signalled => child[r].kills = 1
        /\ timeout[r] = "cleared" => (child[r].closed /\ child[r].kills = 0)

\* No step calls kill() for a child that has emitted 'close', and the only
\* step that calls it is the timer's.
C24_KillStep ==
    \A r \in Reqs :
        /\ child[r].closed => child'[r].kills = child[r].kills
        /\ child'[r].kills # child[r].kills =>
              (timeout[r] = "armed" /\ timeout'[r] = "fired")

\* C24: kill() is called at most once for a request's child, only by the
\* timeout callback, and never after the child emitted 'close'; a child that
\* closes before the timeout is never killed.
C24_KillAtMostOnce == [](C24_KilledByTimer) /\ [][C24_KillStep]_vars

\* A child ended by the timer's SIGTERM, closed with no exit code.
C24_Witness ==
    \E r \in Reqs :
        /\ child[r].kills = 1 /\ child[r].signalled
        /\ child[r].closed /\ child[r].code = "null"

\* The document a request's tool must find: the defaults for this request's
\* output file with the caller's options laid over them.
C25_FinalConfig(r) == Overlay(createConfigObject(outputFile[r]), call[r].options)

\* C25: when the child is spawned, the config file whose path it is given
\* exists and holds the final document, and the output file exists, empty.
\* A tool that starts reads that document, never the defaults-only one of a
\* request with options, and its output.filePath is the output file that is
\* then checked, read and returned as outputPath.
C25_ConfigReadyAtSpawn ==
    \A r \in Reqs :
        /\ pc[r] = "spawn" =>
              /\ configFile[r] \in DOMAIN files
              /\ JSONparse(files[configFile[r]]) = C25_FinalConfig(r)
              /\ outputFile[r] \in DOMAIN files
              /\ files[outputFile[r]] = EmptyText
        /\ child[r].tool # "none" =>
              /\ child[r].seen = <<C25_FinalConfig(r)>>
              /\ ConfigArg(child[r].args) = configFile[r]
              /\ \A key \in OptionKeys :
                    Get(call[r].options, key) \in {True, False} =>
                        child[r].seen[1].output[key] = Get(call[r].options, key)
              /\ child[r].seen[1].output.filePath = outputFile[r]
        /\ pc[r] = "readOutput" =>
              /\ child[r].seen # <<>>
              /\ child[r].seen[1].output.filePath = outputFile[r]
        /\ Succeeded(r) =>
              /\ child[r].seen # <<>>
              /\ outcome[r][1].outputPath = child[r].seen[1].output.filePath
              /\ outcome[r][1].content = files[child[r].seen[1].output.filePath]

\* A returned result of a request whose tool read removeComments set.
C25_Witness ==
    \E r \in Reqs :
        /\ Succeeded(r)
        /\ child[r].seen # <<>>
        /\ child[r].seen[1].output.removeComments = True
        /\ child[r].seen[1].output.compress = False

====
